---------------------------- MODULE Spec2Model ----------------------------
(***************************************************************************)
(* StudyPlanner (script.js): the form handler generateStudyPlan, its       *)
(* validation and parsing, and the scheduler calculateStudyPlan.           *)
(*                                                                         *)
(* Hours are rationals.  hoursPerDay is the record [num, den]; within one  *)
(* call of calculateStudyPlan every quantity of hours is an integer number *)
(* of units of 1/unitDen hour, unitDen = hoursPerDay.den * subjects.length,*)
(* in which totalHours / subjects.length (line 110) is exact.  A recorded  *)
(* value x.toFixed(2) is an integer number of hundredths of an hour.       *)
(***************************************************************************)
EXTENDS Integers, Sequences, FiniteSets, TLC

\* ------------------------------------------------------------- bounds
MaxSubjects == 3
MaxDays == 3
HDen == 2
MaxTimers == 2

\* ------------------------------------------------- program constants
MaxHours == 24
SessionCap == 2
ValveFactor == 10
ErrorSeconds == 5

VARIABLES
    subjects,            \* parameter: sequence of subject names
    hoursPerDay,         \* parameter: [num, den], the rational num/den
    totalDays,           \* parameter
    remainingHours,      \* line 113: name -> units still owed
    schedule,            \* line 119: sequence of pushed day records
    subjectIndex,        \* line 120
    day,                 \* line 123: the for loop's counter
    dailySchedule,       \* line 124: [day, subjects, totalHours]
    remainingDailyHours, \* line 130, in units
    hoursToAllocate,     \* line 141: the value last computed, in units
    pc,                  \* position in calculateStudyPlan
    exitReason,          \* how the inner loop was last left
    valveFired           \* line 172 was taken during this call

VARIABLES
    subjectsInput,       \* line 3: the field's value, a sequence of characters
    hoursPerDayInput,    \* line 4
    daysLeftInput,       \* line 5
    errorText,           \* line 7: errorMessage.textContent
    errorShown,          \* line 7: errorMessage has the class 'show'
    resultsHidden,       \* line 8: resultsSection has the class 'hidden'
    summary,             \* lines 14-17: the four summary spans
    scheduleOutput,      \* line 9: the day cards, as the records they show
    timers               \* pending setTimeout callbacks: seconds left of each

calcVars == << subjects, hoursPerDay, totalDays, remainingHours, schedule,
               subjectIndex, day, dailySchedule, remainingDailyHours,
               hoursToAllocate, exitReason, valveFired >>

formVars == << subjectsInput, hoursPerDayInput, daysLeftInput >>

pageVars == << errorText, errorShown, resultsHidden, summary, scheduleOutput,
               timers >>

vars == << calcVars, pc, formVars, pageVars >>

\* ------------------------------------------------------------ helpers
NameSeq == << "A", "B", "C", "D", "E", "F" >>

Range(s) == { s[i] : i \in 1..Len(s) }

\* subjects.length as a divisor: x / 0 is Infinity in the code and no budget
\* is ever stored for an empty list, so the unit is left at 1/den there.
Divisor(n) == IF n = 0 THEN 1 ELSE n

UnitDen(hpd, subj) == hpd.den * Divisor(Len(subj))

\* hoursPerDay in units
DailyUnits(hpd, subj) == hpd.num * Divisor(Len(subj))

\* lines 107-110: hoursPerSubject = hoursPerDay * totalDays / subjects.length
HoursPerSubject(hpd, d) == hpd.num * d

\* the literal 2 of line 144, in units
CapUnits(hpd, subj) == SessionCap * UnitDen(hpd, subj)

\* parseFloat(x.toFixed(2)), x in units of 1/den hour: hundredths, half up
ToFixed2(x, den) == (200 * x + den) \div (2 * den)

Min2(a, b) == IF a <= b THEN a ELSE b

\* line 141-145: Math.min(remainingDailyHours, remainingHours[cur], 2)
MathMin3NoBudget(daily, rem, cap) == Min2(daily, cap)

MathMin3NoDaily(daily, rem, cap) == Min2(rem, cap)

MathMin3(daily, rem, cap) == Min2(daily, Min2(rem, cap))

\* line 138: remainingHours[currentSubject] > 0
HasHoursLeftAlways(rem) == TRUE

HasHoursLeft(rem) == rem > 0

\* line 160: subjectIndex++
AdvanceStuck(i) == i

AdvanceByTwo(i) == i + 2

Advance(i) == i + 1

\* line 171: subjects.length * totalDays * 10
ValveLimit(n, d) == n * d * ValveFactor

\* line 177: dailySchedule.subjects.length > 0
KeepDayAlways(ds) == TRUE

KeepDay(ds) == Len(ds.subjects) > 0

\* the recorded hours of a list of allocations, added up
RECURSIVE SumHours(_)
SumHours(as) == IF as = << >> THEN 0 ELSE Head(as).hours + SumHours(Tail(as))

\* lines 156 and 178: totalHours has accumulated the amounts allocated, in
\* units, and is rounded once when the day is kept
DayTotalOfRecorded(ds, den) == SumHours(ds.subjects)

DayTotal(ds, den) == ToFixed2(ds.totalHours, den)

\* lines 163-165: subjects.every(subject => remainingHours[subject] <= 0)
AllSubjectsExhausted(subj, rem) == \A i \in 1..Len(subj) : rem[subj[i]] <= 0

\* lines 113-116: one entry per name, a repeated name overwrites its entry
InitialRemainingPerOccurrence(subj, hpd, d) ==
    [ s \in Range(subj) |->
        HoursPerSubject(hpd, d)
          * Cardinality({ i \in 1..Len(subj) : subj[i] = s }) ]

InitialRemaining(subj, hpd, d) ==
    [ s \in Range(subj) |-> HoursPerSubject(hpd, d) ]

\* ------------------------------------------------------------- inputs
\* Names serve only as keys of remainingHours, so lists that differ by a
\* renaming run alike: one list per renaming class, names in order of first
\* use.  The empty list and repeated names are included: generateStudyPlan
\* can pass both.
FirstUseOrder(f, k) ==
    \A i \in 1..k : \A m \in 1..(f[i] - 1) : \E j \in 1..(i - 1) : f[j] = m

SubjectLists ==
    UNION { { [ i \in 1..k |-> NameSeq[f[i]] ] :
                f \in { g \in [1..k -> 1..MaxSubjects] : FirstUseOrder(g, k) } } :
            k \in 0..MaxSubjects }

HourValues == { [num |-> n, den |-> HDen] : n \in 1..(MaxHours * HDen) }

DayValues == 1..MaxDays

\* --------------------------------------------------- calculateStudyPlan
\* lines 105-120: the state on entry, before the for loop's first test
Frame(subj, hpd, d) ==
    [ subjects |-> subj,
      hoursPerDay |-> hpd,
      totalDays |-> d,
      remainingHours |-> InitialRemaining(subj, hpd, d),
      schedule |-> << >>,
      subjectIndex |-> 0,
      day |-> 1,
      dailySchedule |-> [day |-> 0, subjects |-> << >>, totalHours |-> 0],
      remainingDailyHours |-> 0,
      hoursToAllocate |-> 0,
      exitReason |-> "none",
      valveFired |-> FALSE ]

\* the page as loaded, the form fields holding what the user typed
PageLoaded(st, ht, dt) ==
    /\ subjectsInput = st
    /\ hoursPerDayInput = ht
    /\ daysLeftInput = dt
    /\ errorText = ""
    /\ errorShown = FALSE
    /\ resultsHidden = TRUE
    /\ summary = [totalSubjects |-> 0, totalHours |-> 0,
                  hoursPerSubject |-> 0, studyDays |-> 0]
    /\ scheduleOutput = << >>
    /\ timers = << >>

\* calculateStudyPlan called on its own with arguments the validation lets
\* through
Init ==
    /\ \E subj \in SubjectLists, hpd \in HourValues, d \in DayValues :
          LET f == Frame(subj, hpd, d)
          IN  /\ subjects = f.subjects
              /\ hoursPerDay = f.hoursPerDay
              /\ totalDays = f.totalDays
              /\ remainingHours = f.remainingHours
              /\ schedule = f.schedule
              /\ subjectIndex = f.subjectIndex
              /\ day = f.day
              /\ dailySchedule = f.dailySchedule
              /\ remainingDailyHours = f.remainingDailyHours
              /\ hoursToAllocate = f.hoursToAllocate
              /\ exitReason = f.exitReason
              /\ valveFired = f.valveFired
    /\ pc = "for"
    /\ PageLoaded(<< >>, << >>, << >>)

\* lines 123-130: the for test succeeds, a fresh dailySchedule
DayBegin ==
    /\ pc = "for"
    /\ day <= totalDays
    /\ dailySchedule' = [day |-> day, subjects |-> << >>, totalHours |-> 0]
    /\ remainingDailyHours' = DailyUnits(hoursPerDay, subjects)
    /\ pc' = "while"
    /\ UNCHANGED << subjects, hoursPerDay, totalDays, remainingHours, schedule,
                    subjectIndex, day, hoursToAllocate, exitReason, valveFired >>
    /\ UNCHANGED << formVars, pageVars >>

\* lines 133-174: one iteration of the while loop
Iterate ==
    /\ pc = "while"
    /\ remainingDailyHours > 0
    /\ LET n == Len(subjects)
           \* subjects[NaN] is undefined when the list is empty
           cur == IF n = 0 THEN "undefined"
                  ELSE subjects[(subjectIndex % n) + 1]
           has == n > 0 /\ HasHoursLeft(remainingHours[cur])
           take == MathMin3(remainingDailyHours, remainingHours[cur],
                            CapUnits(hoursPerDay, subjects))
           rem2 == IF has THEN [remainingHours EXCEPT ![cur] = @ - take]
                   ELSE remainingHours
           idx2 == Advance(subjectIndex)
       IN  /\ IF has
              THEN /\ hoursToAllocate' = take
                   /\ dailySchedule' =
                        [dailySchedule EXCEPT
                           !.subjects = Append(@,
                               [name |-> cur,
                                hours |-> ToFixed2(take,
                                            UnitDen(hoursPerDay, subjects))]),
                           !.totalHours = @ + take]
                   /\ remainingDailyHours' = remainingDailyHours - take
              ELSE UNCHANGED << hoursToAllocate, dailySchedule,
                                remainingDailyHours >>
           /\ remainingHours' = rem2
           /\ subjectIndex' = idx2
           /\ IF AllSubjectsExhausted(subjects, rem2)
              THEN /\ pc' = "dayEnd"
                   /\ exitReason' = "exhausted"
                   /\ UNCHANGED valveFired
              ELSE IF idx2 > ValveLimit(n, totalDays)
              THEN /\ pc' = "dayEnd"
                   /\ exitReason' = "valve"
                   /\ valveFired' = TRUE
              ELSE /\ pc' = "while"
                   /\ UNCHANGED << exitReason, valveFired >>
    /\ UNCHANGED << subjects, hoursPerDay, totalDays, schedule, day >>
    /\ UNCHANGED << formVars, pageVars >>

\* line 133: the while test fails
WhileExit ==
    /\ pc = "while"
    /\ ~(remainingDailyHours > 0)
    /\ pc' = "dayEnd"
    /\ exitReason' = "daily"
    /\ UNCHANGED << subjects, hoursPerDay, totalDays, remainingHours, schedule,
                    subjectIndex, day, dailySchedule, remainingDailyHours,
                    hoursToAllocate, valveFired >>
    /\ UNCHANGED << formVars, pageVars >>

\* lines 176-181 and the for loop's day++
DayEnd ==
    /\ pc = "dayEnd"
    /\ schedule' =
         IF KeepDay(dailySchedule)
         THEN Append(schedule,
                [dailySchedule EXCEPT
                   !.totalHours =
                      DayTotal(dailySchedule, UnitDen(hoursPerDay, subjects))])
         ELSE schedule
    /\ day' = day + 1
    /\ pc' = "for"
    /\ UNCHANGED << subjects, hoursPerDay, totalDays, remainingHours,
                    subjectIndex, dailySchedule, remainingDailyHours,
                    hoursToAllocate, exitReason, valveFired >>
    /\ UNCHANGED << formVars, pageVars >>

\* line 183: the for test fails, return schedule
Return ==
    /\ pc = "for"
    /\ ~(day <= totalDays)
    /\ pc' = "done"
    /\ UNCHANGED << subjects, hoursPerDay, totalDays, remainingHours, schedule,
                    subjectIndex, day, dailySchedule, remainingDailyHours,
                    hoursToAllocate, exitReason, valveFired >>
    /\ UNCHANGED << formVars, pageVars >>

Next == DayBegin \/ Iterate \/ WhileExit \/ DayEnd \/ Return

Spec == Init /\ [][Next]_vars

\* the specification under which termination is checked: calculateStudyPlan
\* is synchronous code, so a step that can be taken is taken
FairSpec == Spec /\ WF_vars(Next)

\* ------------------------------------------------------- form handlers
\* String.prototype.trim, on a sequence of characters
RECURSIVE TrimStart(_)
TrimStart(s) ==
    IF s # << >> /\ Head(s) = " " THEN TrimStart(Tail(s)) ELSE s

RECURSIVE TrimEnd(_)
TrimEnd(s) ==
    IF s # << >> /\ s[Len(s)] = " " THEN TrimEnd(SubSeq(s, 1, Len(s) - 1))
    ELSE s

Trim(s) == TrimEnd(TrimStart(s))

\* String.prototype.split(','): the pieces between the commas, so one
\* (empty) piece for the empty string
RECURSIVE Split(_)
Split(s) ==
    IF \E i \in 1..Len(s) : s[i] = ","
    THEN LET i == CHOOSE k \in 1..Len(s) :
                    s[k] = "," /\ \A m \in 1..(k - 1) : s[m] # ","
         IN  << SubSeq(s, 1, i - 1) >> \o Split(SubSeq(s, i + 1, Len(s)))
    ELSE << s >>

\* lines 96-102
ParseSubjects(subjectsString) ==
    LET pieces == Split(subjectsString)
        trimmed == [ i \in 1..Len(pieces) |-> Trim(pieces[i]) ]
    IN  SelectSeq(trimmed, LAMBDA subject : Len(subject) > 0)

DigitChars == << "0", "1", "2", "3", "4", "5", "6", "7", "8", "9" >>

IsDigit(c) == \E i \in 1..Len(DigitChars) : DigitChars[i] = c

DigitValue(c) == (CHOOSE i \in 1..Len(DigitChars) : DigitChars[i] = c) - 1

RECURSIVE DigitPrefix(_)
DigitPrefix(s) ==
    IF s # << >> /\ IsDigit(Head(s)) THEN << Head(s) >> \o DigitPrefix(Tail(s))
    ELSE << >>

RECURSIVE DigitsValue(_)
DigitsValue(s) ==
    IF s = << >> THEN 0
    ELSE 10 * DigitsValue(SubSeq(s, 1, Len(s) - 1)) + DigitValue(s[Len(s)])

RECURSIVE Pow10(_)
Pow10(k) == IF k = 0 THEN 1 ELSE 10 * Pow10(k - 1)

NaN == [nan |-> TRUE, num |-> 0, den |-> 1]

Unsigned(s) == IF s # << >> /\ Head(s) \in {"-", "+"} THEN Tail(s) ELSE s

\* the global parseFloat on decimal text (no exponent): leading blanks, a
\* sign, digits, a fraction; what follows is ignored; no digit at all is NaN
ParseFloat(s) ==
    LET t == TrimStart(s)
        u == Unsigned(t)
        ip == DigitPrefix(u)
        r == SubSeq(u, Len(ip) + 1, Len(u))
        fp == IF r # << >> /\ Head(r) = "." THEN DigitPrefix(Tail(r)) ELSE << >>
        mag == DigitsValue(ip) * Pow10(Len(fp)) + DigitsValue(fp)
    IN  IF ip = << >> /\ fp = << >> THEN NaN
        ELSE [nan |-> FALSE,
              num |-> IF t # << >> /\ Head(t) = "-" THEN -mag ELSE mag,
              den |-> Pow10(Len(fp))]

\* the global parseInt on decimal text: leading blanks, a sign, digits
ParseInt(s) ==
    LET t == TrimStart(s)
        ip == DigitPrefix(Unsigned(t))
        mag == DigitsValue(ip)
    IN  IF ip = << >> THEN NaN
        ELSE [nan |-> FALSE,
              num |-> IF t # << >> /\ Head(t) = "-" THEN -mag ELSE mag,
              den |-> 1]

\* !x || x <= 0 for a number x: NaN, 0 and the negatives
FalsyOrNotPositive(x) == x.nan \/ x.num = 0 \/ x.num <= 0

\* lines 58-93; the messages without their leading sign
ValidateInputs(subj, hpd, dl) ==
    IF Len(subj) = 0
    THEN [isValid |-> FALSE, message |-> "Please enter at least one subject."]
    ELSE IF FalsyOrNotPositive(hpd)
    THEN [isValid |-> FALSE,
          message |-> "Please enter valid hours per day (greater than 0)."]
    ELSE IF hpd.num > MaxHours * hpd.den
    THEN [isValid |-> FALSE, message |-> "Hours per day cannot exceed 24 hours."]
    ELSE IF FalsyOrNotPositive(dl)
    THEN [isValid |-> FALSE,
          message |-> "Please enter valid number of days (greater than 0)."]
    ELSE [isValid |-> TRUE, message |-> ""]

\* x.toFixed(1) of the rational num/den: tenths, half up
ToFixed1(num, den) == (20 * num + den) \div (2 * den)

\* no call of calculateStudyPlan is in progress: its locals do not exist
NoFrame == Frame(<< >>, [num |-> 0, den |-> 1], 0)

SetFrame(f) ==
    /\ subjects' = f.subjects
    /\ hoursPerDay' = f.hoursPerDay
    /\ totalDays' = f.totalDays
    /\ remainingHours' = f.remainingHours
    /\ schedule' = f.schedule
    /\ subjectIndex' = f.subjectIndex
    /\ day' = f.day
    /\ dailySchedule' = f.dailySchedule
    /\ remainingDailyHours' = f.remainingDailyHours
    /\ hoursToAllocate' = f.hoursToAllocate
    /\ exitReason' = f.exitReason
    /\ valveFired' = f.valveFired

\* what the user may have typed into the three fields
SubjectTexts ==
    { << >>, << " " >>, << "," >>, << " ", ",", " " >>, << "A" >>,
      << "A", ",", "B" >>, << " ", "A", " ", ",", " ", "B", " " >>,
      << "A", ",", ",", "B" >>, << "A", ",", "A" >>,
      << "A", ",", "B", ",", "C" >> }

HourTexts ==
    { << >>, << "0" >>, << "-", "1" >>, << "x" >>, << "0", ".", "5" >>,
      << "2" >>, << "3" >>, << "2", "4" >>, << "2", "4", ".", "5" >> }

DayTexts ==
    { << >>, << "0" >>, << "-", "2" >>, << "0", ".", "5" >>, << "1" >>,
      << "2" >>, << "2", ".", "7" >> }

InitUI ==
    /\ \E st \in SubjectTexts, ht \in HourTexts, dt \in DayTexts :
          PageLoaded(st, ht, dt)
    /\ subjects = NoFrame.subjects
    /\ hoursPerDay = NoFrame.hoursPerDay
    /\ totalDays = NoFrame.totalDays
    /\ remainingHours = NoFrame.remainingHours
    /\ schedule = NoFrame.schedule
    /\ subjectIndex = NoFrame.subjectIndex
    /\ day = NoFrame.day
    /\ dailySchedule = NoFrame.dailySchedule
    /\ remainingDailyHours = NoFrame.remainingDailyHours
    /\ hoursToAllocate = NoFrame.hoursToAllocate
    /\ exitReason = NoFrame.exitReason
    /\ valveFired = NoFrame.valveFired
    /\ pc = "idle"

\* lines 31-51 (a click on generateBtn, or Enter in a field, lines 279-283):
\* up to the return after showError, or up to the call of calculateStudyPlan
GenerateStudyPlan ==
    /\ pc = "idle"
    /\ LET subjectsValue == Trim(subjectsInput)
           hpd == ParseFloat(hoursPerDayInput)
           daysLeft == ParseInt(daysLeftInput)
           validation == ValidateInputs(subjectsValue, hpd, daysLeft)
       IN  IF ~validation.isValid
           THEN \* showError, lines 264-272
                /\ Len(timers) < MaxTimers
                /\ errorText' = validation.message
                /\ errorShown' = TRUE
                /\ timers' = Append(timers, ErrorSeconds)
                /\ UNCHANGED << calcVars, pc, resultsHidden, summary,
                                scheduleOutput >>
           ELSE \* hideError, then the call
                /\ errorShown' = FALSE
                /\ SetFrame(Frame(ParseSubjects(subjectsValue),
                                  [num |-> hpd.num, den |-> hpd.den],
                                  daysLeft.num))
                /\ pc' = "for"
                /\ UNCHANGED << errorText, timers, resultsHidden, summary,
                                scheduleOutput >>
    /\ UNCHANGED formVars

\* lines 54 and 187-212: calculateStudyPlan has returned to generateStudyPlan
DisplayResults ==
    /\ pc = "done"
    /\ LET numSubjects == Len(subjects)
           total == hoursPerDay.num * totalDays
       IN  summary' =
             [totalSubjects |-> numSubjects,
              totalHours |-> ToFixed1(total, hoursPerDay.den),
              hoursPerSubject |->
                 IF numSubjects = 0 THEN "Infinity"
                 ELSE ToFixed1(total, hoursPerDay.den * numSubjects),
              studyDays |-> totalDays]
    /\ scheduleOutput' = schedule
    /\ resultsHidden' = FALSE
    /\ SetFrame(NoFrame)
    /\ pc' = "idle"
    /\ UNCHANGED << formVars, errorText, errorShown, timers >>

\* lines 289-306
ResetForm ==
    /\ pc = "idle"
    /\ subjectsInput' = << >>
    /\ hoursPerDayInput' = << >>
    /\ daysLeftInput' = << >>
    /\ resultsHidden' = TRUE
    /\ errorShown' = FALSE
    /\ UNCHANGED << calcVars, pc, errorText, summary, scheduleOutput, timers >>

\* a second passes with no timeout due
Tick ==
    /\ pc = "idle"
    /\ timers # << >>
    /\ \A i \in 1..Len(timers) : timers[i] > 0
    /\ timers' = [ i \in 1..Len(timers) |-> timers[i] - 1 ]
    /\ UNCHANGED << calcVars, pc, formVars, errorText, errorShown,
                    resultsHidden, summary, scheduleOutput >>

\* lines 269-271: the oldest timeout is due, its callback calls hideError
TimerFire ==
    /\ pc = "idle"
    /\ timers # << >>
    /\ Head(timers) = 0
    /\ timers' = Tail(timers)
    /\ errorShown' = FALSE
    /\ UNCHANGED << calcVars, pc, formVars, errorText, resultsHidden, summary,
                    scheduleOutput >>

NextUI ==
    \/ GenerateStudyPlan
    \/ DayBegin
    \/ Iterate
    \/ WhileExit
    \/ DayEnd
    \/ Return
    \/ DisplayResults
    \/ ResetForm
    \/ Tick
    \/ TimerFire

SpecUI == InitUI /\ [][NextUI]_vars

\* ------------------------------------------------------------- claims
DistinctNames ==
    \A i, j \in 1..Len(subjects) : subjects[i] = subjects[j] => i = j

ValidInput ==
    /\ Len(subjects) >= 1
    /\ DistinctNames
    /\ hoursPerDay.num > 0
    /\ hoursPerDay.num <= MaxHours * hoursPerDay.den
    /\ totalDays >= 1

RECURSIVE Flatten(_)
Flatten(days) ==
    IF days = << >> THEN << >> ELSE Head(days).subjects \o Flatten(Tail(days))

\* the recorded allocations of the returned schedule, in order
Allocations == Flatten(schedule)

AllocationsOf(s) == SelectSeq(Allocations, LAMBDA a : a.name = s)

Abs(x) == IF x < 0 THEN -x ELSE x

\* C1: conservation.  At return, for a valid input, the recorded hours of
\* all allocations add up to hoursPerDay * totalDays, within the tolerance
\* of 0.01 hour per allocation.
Conservation ==
    (pc = "done" /\ ValidInput) =>
        Abs(SumHours(Allocations) * hoursPerDay.den
              - 100 * hoursPerDay.num * totalDays)
          <= hoursPerDay.den * Len(Allocations)

\* C2: equal share.  At return, for a valid input, every subject appears in
\* the schedule and its recorded hours add up to
\* hoursPerDay * totalDays / |subjects|, within 0.01 hour per allocation.
EqualShare ==
    (pc = "done" /\ ValidInput) =>
        \A s \in Range(subjects) :
            /\ Len(AllocationsOf(s)) > 0
            /\ Abs(SumHours(AllocationsOf(s)) * hoursPerDay.den * Len(subjects)
                     - 100 * hoursPerDay.num * totalDays)
                 <= hoursPerDay.den * Len(subjects) * Len(AllocationsOf(s))

\* C3: for a valid input the safety valve of line 171 is never the reason
\* the inner loop is left.
ValveNeverExits == ValidInput => exitReason # "valve"

\* this step of the while loop appended an allocation
Allocated ==
    /\ pc = "while"
    /\ Len(dailySchedule'.subjects) = Len(dailySchedule.subjects) + 1

LastAllocation(ds) == ds.subjects[Len(ds.subjects)]

\* C5 as stated, read on the allocation that is appended: its recorded
\* hours are > 0, at most 2, at most the subject's remaining budget at the
\* moment of assignment, and equal to
\* min(remaining daily hours, remaining subject budget, 2).
RecordedAllocationBounds ==
    [][ Allocated =>
          LET a == LastAllocation(dailySchedule')
              u == UnitDen(hoursPerDay, subjects)
              cap == 100 * SessionCap * u
              rem == 100 * remainingHours[a.name]
              daily == 100 * remainingDailyHours
              h == a.hours * u
          IN  /\ h > 0
              /\ h <= cap
              /\ h <= rem
              /\ h <= daily
              /\ h \in {cap, rem, daily} ]_vars

\* C5 amended: the amount hoursToAllocate of every allocation is > 0, at
\* most 2, at most the subject's remaining budget at the moment of
\* assignment and equal to min(remaining daily hours, remaining subject
\* budget, 2); it is what the subject's budget and the day's remaining
\* hours are decremented by; the recorded hours are that amount rounded to
\* 2 decimals, so they are at most 2 and within 0.005 of it.
AllocationBounds ==
    [][ Allocated =>
          LET a == LastAllocation(dailySchedule')
              u == UnitDen(hoursPerDay, subjects)
              cap == SessionCap * u
              rem == remainingHours[a.name]
              daily == remainingDailyHours
              h == hoursToAllocate'
          IN  /\ a.name = subjects[(subjectIndex % Len(subjects)) + 1]
              /\ h > 0
              /\ h <= cap
              /\ h <= rem
              /\ h <= daily
              /\ h \in {cap, rem, daily}
              /\ remainingHours'[a.name] = rem - h
              /\ remainingDailyHours' = daily - h
              /\ a.hours <= 100 * SessionCap
              /\ 2 * Abs(a.hours * u - 100 * h) <= u ]_vars

\* C5 witness: an allocation limited by the subject's remaining budget, not
\* by the cap or the day, has been appended and recorded rounded
AllocationBoundsWitness ==
    /\ pc = "while"
    /\ Len(dailySchedule.subjects) > 0
    /\ hoursToAllocate < CapUnits(hoursPerDay, subjects)
    /\ remainingDailyHours > 0
    /\ LastAllocation(dailySchedule).hours * UnitDen(hoursPerDay, subjects)
         # 100 * hoursToAllocate

\* the day records built so far: those pushed and, inside the loops, the
\* one in progress
DaySubjectLists ==
    [ i \in 1..Len(schedule) |-> schedule[i].subjects ]
      \o (IF pc \in {"while", "dayEnd"} THEN << dailySchedule.subjects >>
          ELSE << >>)

\* C6 as stated: the recorded allocation hours of each day add up to at
\* most hoursPerDay, and remainingDailyHours is never negative.
RecordedDailyCap ==
    /\ remainingDailyHours >= 0
    /\ \A i \in 1..Len(schedule) :
          SumHours(schedule[i].subjects) * hoursPerDay.den
            <= 100 * hoursPerDay.num

\* C6 amended: remainingDailyHours is never negative, the amounts allocated
\* in a day and the day's remaining hours add up to hoursPerDay, and the
\* recorded (rounded) allocation hours of each day add up to at most
\* hoursPerDay + 0.005 * (number of the day's allocations).
DailyCap ==
    /\ remainingDailyHours >= 0
    /\ pc \in {"while", "dayEnd"} =>
          dailySchedule.totalHours + remainingDailyHours
            = DailyUnits(hoursPerDay, subjects)
    /\ \A i \in 1..Len(DaySubjectLists) :
          2 * SumHours(DaySubjectLists[i]) * hoursPerDay.den
            <= 200 * hoursPerDay.num + hoursPerDay.den * Len(DaySubjectLists[i])

\* C6 witness: a returned day whose recorded hours exceed hoursPerDay
DailyCapWitness ==
    /\ pc = "done"
    /\ \E i \in 1..Len(schedule) :
          SumHours(schedule[i].subjects) * hoursPerDay.den
            > 100 * hoursPerDay.num

\* C7: the schedule holds no day with an empty allocation list, at most
\* totalDays days, and day indices strictly increasing within 1..totalDays.
OutputShape ==
    /\ Len(schedule) <= totalDays
    /\ \A i \in 1..Len(schedule) :
          /\ Len(schedule[i].subjects) > 0
          /\ schedule[i].day \in 1..totalDays
          /\ i > 1 => schedule[i - 1].day < schedule[i].day

\* C7 witness: a returned schedule of several days from which at least one
\* day was dropped
OutputShapeWitness ==
    /\ pc = "done"
    /\ Len(schedule) >= 2
    /\ Len(schedule) < totalDays

Termination ==
    /\ <>(pc = "done")
    /\ [](pc = "done" => day = totalDays + 1)

\* C9 witness: a return after the longest run of days, with allocations made
TerminationWitness ==
    /\ pc = "done"
    /\ ValidInput
    /\ totalDays = MaxDays
    /\ day = totalDays + 1
    /\ Len(schedule) = totalDays

\* C10: for a valid input with at least two subjects, every day of the
\* schedule holds allocations for at least two different subjects.
DailyBalance ==
    (ValidInput /\ Len(subjects) >= 2) =>
        \A i \in 1..Len(schedule) :
            Cardinality({ a.name : a \in Range(schedule[i].subjects) }) >= 2

\* C4: calculateStudyPlan is entered from generateStudyPlan only with a
\* non-empty subject list, 0 < hoursPerDay <= 24 and totalDays >= 1; raw
\* input that parses to an empty subject list, to 0 hours or to 0 days never
\* reaches it.
ValidationGate ==
    pc # "idle" =>
        /\ Len(subjects) >= 1
        /\ hoursPerDay.num > 0
        /\ hoursPerDay.num <= MaxHours * hoursPerDay.den
        /\ totalDays >= 1

\* r hundredths is x units of 1/u hour rounded to 2 decimals, half up
IsRounded2(r, x, u) ==
    /\ 2 * (r * u - 100 * x) <= u
    /\ 2 * (100 * x - r * u) < u

\* this step pushed the day in progress onto the schedule
DayPushed ==
    /\ pc = "dayEnd"
    /\ Len(schedule') = Len(schedule) + 1

\* C11 as stated: every returned day's totalHours is the sum of the day's
\* recorded (already rounded) allocation hours, rounded to 2 decimals.
TotalOfRecordedHours ==
    \A i \in 1..Len(schedule) :
        schedule[i].totalHours = SumHours(schedule[i].subjects)

\* C11 amended: each recorded allocation's hours are the amount allocated
\* rounded to 2 decimals, and a day's totalHours is the sum of the day's
\* unrounded amounts (hoursPerDay less what the day has left), rounded to
\* 2 decimals once.
RoundingPolicy ==
    [][ /\ Allocated =>
              IsRounded2(LastAllocation(dailySchedule').hours,
                         remainingDailyHours - remainingDailyHours',
                         UnitDen(hoursPerDay, subjects))
        /\ DayPushed =>
              LET d == schedule'[Len(schedule')]
              IN  /\ d.day = day
                  /\ d.subjects = dailySchedule.subjects
                  /\ IsRounded2(d.totalHours,
                                DailyUnits(hoursPerDay, subjects)
                                  - remainingDailyHours,
                                UnitDen(hoursPerDay, subjects)) ]_vars

\* C11 witness: a returned day whose totalHours differs from the sum of its
\* recorded allocation hours
RoundingPolicyWitness ==
    /\ pc = "done"
    /\ \E i \in 1..Len(schedule) :
          schedule[i].totalHours # SumHours(schedule[i].subjects)

\* the allocations recorded so far, over all days, in order
AllocationsSoFar ==
    Flatten(schedule)
      \o (IF pc \in {"while", "dayEnd"} THEN dailySchedule.subjects ELSE << >>)

\* the while loop's body is about to run
InLoopBody == pc = "while" /\ remainingDailyHours > 0

PositionOf(name) == CHOOSE j \in 1..Len(subjects) : subjects[j] = name

\* C12: the cursor subjectIndex advances by exactly 1 on every iteration of
\* the inner loop and is changed by nothing else (no reset at a day
\* boundary); with distinct names every allocation goes to the subject at
\* the cursor, which is the first subject with remaining budget > 0 in
\* cyclic input order after the subject of the previous allocation of the
\* run (the previous day's last one included), and the first allocation of
\* the run goes to subjects[0].
RotationOrder ==
    [][ /\ InLoopBody => subjectIndex' = subjectIndex + 1
        /\ ~InLoopBody => subjectIndex' = subjectIndex
        /\ (Allocated /\ DistinctNames) =>
              LET n == Len(subjects)
                  cur == (subjectIndex % n) + 1
                  a == LastAllocation(dailySchedule')
              IN  /\ a.name = subjects[cur]
                  /\ remainingHours[a.name] > 0
                  /\ IF AllocationsSoFar = << >>
                     THEN cur = 1
                     ELSE LET prev == PositionOf(
                                 AllocationsSoFar[Len(AllocationsSoFar)].name)
                              dist == ((cur - prev - 1 + n) % n) + 1
                          IN  \A k \in 1..(dist - 1) :
                                 remainingHours[subjects[((prev + k - 1) % n) + 1]]
                                   <= 0 ]_vars

\* C12 witness: on a later day of a run over three or more distinct
\* subjects, an allocation has been made after exhausted subjects were
\* skipped, the day having started elsewhere than at subjects[0]
RotationOrderWitness ==
    /\ pc = "while"
    /\ DistinctNames
    /\ Len(subjects) >= 3
    /\ day >= 2
    /\ Len(dailySchedule.subjects) >= 1
    /\ dailySchedule.subjects[1].name # subjects[1]
    /\ subjectIndex > Len(AllocationsSoFar)
    /\ \E s \in Range(subjects) : remainingHours[s] = 0

\* C13: when a name occurs more than once in subjects, each name has one
\* budget, initialised to one share hoursPerDay * totalDays / |subjects|
\* (|subjects| counting the repetitions); at return that budget is spent, so
\* the hours allocated to the name are one share (the recorded hours within
\* 0.005 hour per allocation of it), and the hours allocated in all, one
\* share per distinct name, are less than hoursPerDay * totalDays.
DuplicatesCollapse ==
    ~DistinctNames =>
        LET n == Len(subjects)
            k == Cardinality(Range(subjects))
            den == hoursPerDay.den
            total == hoursPerDay.num * totalDays
        IN  /\ DOMAIN remainingHours = Range(subjects)
            /\ pc = "for" /\ day = 1 =>
                  \A s \in Range(subjects) :
                      remainingHours[s] * n = total * Divisor(n)
            /\ pc = "done" =>
                  /\ \A s \in Range(subjects) :
                        /\ remainingHours[s] = 0
                        /\ 2 * Abs(SumHours(AllocationsOf(s)) * den * n
                                     - 100 * total)
                             <= den * n * Len(AllocationsOf(s))
                  /\ 2 * Abs(SumHours(Allocations) * den * n - 100 * total * k)
                       <= den * n * Len(Allocations)
                  /\ 2 * SumHours(Allocations) * den * n
                       - den * n * Len(Allocations)
                       < 200 * total * n

\* C13 witness: a return of a run over a list in which one name is repeated
\* and another is not, both with allocations
DuplicatesCollapseWitness ==
    /\ pc = "done"
    /\ ~DistinctNames
    /\ Cardinality(Range(subjects)) >= 2
    /\ \A s \in Range(subjects) : Len(AllocationsOf(s)) > 0
    /\ Len(schedule) < totalDays

\* C14: a displayed error banner is hidden only by a successful
\* generateStudyPlan, by resetForm, or by a timeout firing once 5 seconds
\* have passed since the latest showError (whose timeout is the last of
\* timers); the timeout of an earlier showError never hides it sooner.
ErrorBannerLifetime ==
    [][ (errorShown /\ ~errorShown') =>
          \/ pc' = "for" /\ timers' = timers
          \/ subjectsInput' = << >> /\ resultsHidden' /\ timers' = timers
          \/ timers' = Tail(timers) /\ timers[Len(timers)] = 0 ]_vars

=============================================================================
